---------------------------- MODULE Spec2Model ----------------------------
(***************************************************************************)
(* Model of doc_price_alert.py: the daily / monthly reconciliation of a    *)
(* price sheet against the persisted alert state.                          *)
(*                                                                         *)
(* A cell is a string, a row a sequence of cells, the sheet a sequence of   *)
(* rows whose first element is the header (Python index 0).  Python        *)
(* indices are kept: Python row i is sheet[i+1].                           *)
(***************************************************************************)
EXTENDS Integers, Sequences, FiniteSets, TLC

(***************************************************************************)
(* Bounds of the model.                                                    *)
(***************************************************************************)
\* greatest number of data rows (rows after the header) the sheet holds
MaxRows == 2
\* greatest clock tick; tick t is day 1 + (t % 2) of the month t \div 2 months after
\* January 2024
MaxTick == 1
\* greatest max_retries a retry loop is called with when it is applied on its own
MaxCeiling == 7
\* the steps a time unit is divided into: a delay d is kept as the number Scale * d, and the
\* jitter random.uniform(0, 1) is one of 0, 1/Scale, ..., (Scale - 1)/Scale
Scale == 2
\* the cells a row may have beyond the NumCols the program reads
MaxExtra == 1

(***************************************************************************)
(* Program constants.                                                      *)
(***************************************************************************)
\* Date + 23 suppliers: the columns a complete row fills
NumCols == 24
\* max_retries of get_sheet_data_with_retry and of send_webhook_with_retry
MaxAttempts == 5
\* max_retries of check_and_process_daily_data (re-fetches of an entry in progress)
MaxIncompleteRetries == 3
\* min(delay, 60): the greatest capped delay
MaxDelay == 60

None == "None"

(***************************************************************************)
(* Strings.                                                                *)
(***************************************************************************)
\* the element of a one-element set; {e(x) : x \in {v}} names the value v as x in e
The(S) == CHOOSE x \in S : TRUE

Digits == "0123456789"

\* s[k - 1] of Python: the k-th character
Char(s, k) == SubSeq(s, k, k)

IsDigit(c) == \E k \in 1..10 : Char(Digits, k) = c

DigitVal(c) == (CHOOSE k \in 1..10 : Char(Digits, k) = c) - 1

IsSpace(c) == c \in {" ", "\t", "\n"}

RECURSIVE LStrip(_)
LStrip(s) == IF s # "" /\ IsSpace(Head(s)) THEN LStrip(Tail(s)) ELSE s

RECURSIVE RStrip(_)
RStrip(s) ==
    IF s # "" /\ IsSpace(Char(s, Len(s))) THEN RStrip(SubSeq(s, 1, Len(s) - 1)) ELSE s

\* str.strip()
Strip(s) == The({RStrip(LStrip(x)) : x \in {s}})

\* str.replace(c, '')
RECURSIVE RemoveChar(_, _)
RemoveChar(s, c) ==
    IF s = "" THEN ""
    ELSE IF Head(s) = c THEN RemoveChar(Tail(s), c)
    ELSE Head(s) \o RemoveChar(Tail(s), c)

\* sep.join(parts)
RECURSIVE Join(_, _)
Join(parts, sep) ==
    IF parts = <<>> THEN ""
    ELSE IF Len(parts) = 1 THEN parts[1]
    ELSE parts[1] \o sep \o Join(Tail(parts), sep)

\* s.split(sep)
RECURSIVE Split(_, _)
Split(s, sep) ==
    IF \A k \in 1..Len(s) : Char(s, k) # sep THEN <<s>>
    ELSE LET p == CHOOSE k \in 1..Len(s) :
                      Char(s, k) = sep /\ \A j \in 1..(k - 1) : Char(s, j) # sep
         IN  <<SubSeq(s, 1, p - 1)>> \o Split(SubSeq(s, p + 1, Len(s)), sep)

AllDigits(s) == s # "" /\ \A k \in 1..Len(s) : IsDigit(Char(s, k))

RECURSIVE NumVal(_)
NumVal(s) ==
    IF s = "" THEN 0
    ELSE 10 * NumVal(SubSeq(s, 1, Len(s) - 1)) + DigitVal(Char(s, Len(s)))

\* int(s): surrounding whitespace and one sign are accepted; ok is FALSE where Python raises
\* ValueError
ParseInt(s) ==
    The({IF t # "" /\ Head(t) \in {"-", "+"}
         THEN [ok |-> AllDigits(Tail(t)),
               val |-> IF ~AllDigits(Tail(t)) THEN 0
                       ELSE IF Head(t) = "-" THEN 0 - NumVal(Tail(t)) ELSE NumVal(Tail(t))]
         ELSE [ok |-> AllDigits(t), val |-> IF AllDigits(t) THEN NumVal(t) ELSE 0] :
            t \in {Strip(s)}})

\* row[:n]
Take(row, n) == SubSeq(row, 1, IF Len(row) < n THEN Len(row) ELSE n)

(***************************************************************************)
(* Rows.                                                                   *)
(***************************************************************************)
\* mutant: the length of the row is not looked at
is_row_complete_any_length(row) ==
    \A i \in 1..(IF Len(row) < NumCols THEN Len(row) ELSE NumCols) : Strip(row[i]) # ""

is_row_complete(row) ==
    /\ Len(row) >= NumCols
    /\ \A i \in 1..NumCols : Strip(row[i]) # ""

\* md5 is taken to be injective: the digest is the string it is computed from
compute_row_hash(row) ==
    The({Join(stripped, "|") :
            stripped \in {[k \in 1..Len(Take(row, NumCols)) |-> Strip(row[k])]}})

\* float(cleaned) of a string of this model's alphabet (digits, ',', ' ', letters):
\* a non-empty run of digits parses, anything else raises ValueError -> None.
\* The result is [ok, val]; ok = FALSE stands for None.
parse_price(value) ==
    The({IF AllDigits(cleaned) THEN [ok |-> TRUE, val |-> NumVal(cleaned)]
                               ELSE [ok |-> FALSE, val |-> 0] :
            cleaned \in {Strip(RemoveChar(RemoveChar(value, ","), " "))}})

\* mutant: a cell that does not parse counts as the price 0
Prices_unparsed_as_zero(row) ==
    [k \in 1..((IF Len(row) < NumCols THEN Len(row) ELSE NumCols) - 1)
        |-> IF parse_price(row[k + 1]).ok THEN parse_price(row[k + 1])
                                          ELSE [ok |-> TRUE, val |-> 0]]

\* prices: parse_price(row[i]) for i in range(1, min(len(row), 24)), the None left out
Prices(row) ==
    SelectSeq([k \in 1..((IF Len(row) < NumCols THEN Len(row) ELSE NumCols) - 1)
                  |-> parse_price(row[k + 1])],
              LAMBDA price : price.ok)

\* sum(prices[:k])
RECURSIVE SumPrices(_, _)
SumPrices(prices, k) == IF k = 0 THEN 0 ELSE SumPrices(prices, k - 1) + prices[k].val

\* sum(prices) / len(prices) kept as the pair (sum, n); n = 0 stands for None
calculate_daily_average(row) ==
    The({[sum |-> SumPrices(prices, Len(prices)), n |-> Len(prices)] :
            prices \in {Prices(row)}})

\* the None of the (None, None) the two finders return
NoIndex == 0 - 1

HasDate(row) == Len(row) > 0 /\ Strip(row[1]) # ""

\* mutant: the scan goes on to the header, range(len(data) - 1, -1, -1)
RECURSIVE ScanComplete_with_header(_, _)
ScanComplete_with_header(data, i) ==
    IF i < 0 THEN NoIndex
    ELSE IF is_row_complete(data[i + 1]) THEN i
    ELSE ScanComplete_with_header(data, i - 1)

\* for i in range(len(data) - 1, 0, -1): the first i, from the end, whose row is complete
RECURSIVE ScanComplete(_, _)
ScanComplete(data, i) ==
    IF i < 1 THEN NoIndex
    ELSE IF is_row_complete(data[i + 1]) THEN i
    ELSE ScanComplete(data, i - 1)

get_latest_complete_row(data) ==
    IF Len(data) <= 1 THEN NoIndex ELSE ScanComplete(data, Len(data) - 1)

RECURSIVE ScanDate(_, _)
ScanDate(data, i) ==
    IF i < 1 THEN NoIndex
    ELSE IF HasDate(data[i + 1]) THEN i
    ELSE ScanDate(data, i - 1)

get_latest_row_with_date(data) ==
    IF Len(data) <= 1 THEN NoIndex ELSE ScanDate(data, Len(data) - 1)

is_row_incomplete_but_started(row) ==
    /\ Len(row) > 0
    /\ Strip(row[1]) # ""
    /\ ~is_row_complete(row)


(***************************************************************************)
(* Dates.                                                                  *)
(***************************************************************************)
MonthAbbrs ==
    <<"Jan", "Feb", "Mar", "Apr", "May", "Jun", "Jul", "Aug", "Sep", "Oct", "Nov", "Dec">>

IsLeap(y) == (y % 4 = 0 /\ y % 100 # 0) \/ y % 400 = 0

DaysIn(y, m) ==
    IF m \in {4, 6, 9, 11} THEN 30
    ELSE IF m = 2 THEN (IF IsLeap(y) THEN 29 ELSE 28)
    ELSE 31

\* the fields strptime's directives accept
IsYearField(p) == AllDigits(p) /\ Len(p) = 4
IsMonthField(p) == AllDigits(p) /\ Len(p) <= 2 /\ NumVal(p) \in 1..12
IsDayField(p) == AllDigits(p) /\ Len(p) <= 2 /\ NumVal(p) \in 1..31
IsAbbrField(p) == \E m \in 1..12 : MonthAbbrs[m] = p
AbbrVal(p) == CHOOSE m \in 1..12 : MonthAbbrs[m] = p

NoDate == [ok |-> FALSE, year |-> 0, month |-> 0]

MkDate(y, m, d) ==
    IF d <= DaysIn(y, m) THEN [ok |-> TRUE, year |-> y, month |-> m] ELSE NoDate

\* datetime.strptime(date_str, fmt) for the four formats of get_month_data;
\* ok = FALSE stands for ValueError
Strptime(s, fmt) ==
    LET dash == Split(s, "-")
        slash == Split(s, "/")
    IN  CASE fmt = "%d-%b-%Y" ->
                IF Len(dash) = 3 /\ IsDayField(dash[1]) /\ IsAbbrField(dash[2])
                                 /\ IsYearField(dash[3])
                THEN MkDate(NumVal(dash[3]), AbbrVal(dash[2]), NumVal(dash[1]))
                ELSE NoDate
          [] fmt = "%Y-%m-%d" ->
                IF Len(dash) = 3 /\ IsYearField(dash[1]) /\ IsMonthField(dash[2])
                                 /\ IsDayField(dash[3])
                THEN MkDate(NumVal(dash[1]), NumVal(dash[2]), NumVal(dash[3]))
                ELSE NoDate
          [] fmt = "%d/%m/%Y" ->
                IF Len(slash) = 3 /\ IsDayField(slash[1]) /\ IsMonthField(slash[2])
                                  /\ IsYearField(slash[3])
                THEN MkDate(NumVal(slash[3]), NumVal(slash[2]), NumVal(slash[1]))
                ELSE NoDate
          [] OTHER ->
                IF Len(slash) = 3 /\ IsMonthField(slash[1]) /\ IsDayField(slash[2])
                                  /\ IsYearField(slash[3])
                THEN MkDate(NumVal(slash[3]), NumVal(slash[1]), NumVal(slash[2]))
                ELSE NoDate

DateFormats == <<"%d-%b-%Y", "%Y-%m-%d", "%d/%m/%Y", "%m/%d/%Y">>

\* the first format that parses
RECURSIVE ParseRowDate(_, _)
ParseRowDate(date_str, k) ==
    IF k > Len(DateFormats) THEN NoDate
    ELSE IF Strptime(date_str, DateFormats[k]).ok THEN Strptime(date_str, DateFormats[k])
    ELSE ParseRowDate(date_str, k + 1)

RowInMonth(row, year, month) ==
    /\ Len(row) > 0
    /\ row[1] # ""
    /\ LET row_date == ParseRowDate(Strip(row[1]), 1)
       IN  row_date.ok /\ row_date.year = year /\ row_date.month = month
    /\ is_row_complete(row)

\* the rows of data[1:] of the month, in sheet order
RECURSIVE MonthRowsFrom(_, _, _, _)
MonthRowsFrom(data, i, year, month) ==
    IF i > Len(data) - 1 THEN <<>>
    ELSE (IF RowInMonth(data[i + 1], year, month) THEN <<data[i + 1]>> ELSE <<>>)
         \o MonthRowsFrom(data, i + 1, year, month)

get_month_data(data, year, month) == MonthRowsFrom(data, 1, year, month)

(***************************************************************************)
(* The clock.  Tick t is day 1 + (t % 2) of the month t \div 2 months      *)
(* after January 2024: 1 Jan 2024, 2 Jan 2024, 1 Feb 2024, 2 Feb 2024 ...  *)
(***************************************************************************)
NowYear(t) == 2024 + ((t \div 2) \div 12)

NowMonth(t) == ((t \div 2) % 12) + 1

NowDay(t) == 1 + (t % 2)

\* the decimal digits of n, zero-padded to width w
RECURSIVE NumStr(_, _)
NumStr(n, w) == IF w = 0 THEN "" ELSE NumStr(n \div 10, w - 1) \o Char(Digits, (n % 10) + 1)

\* now.strftime("%Y-%m")
current_month_key(t) == NumStr(NowYear(t), 4) \o "-" \o NumStr(NowMonth(t), 2)

\* (now.replace(day=1, ...) - timedelta(days=1)).year / .month
prev_year(t) == IF NowMonth(t) = 1 THEN NowYear(t) - 1 ELSE NowYear(t)

prev_month(t) == IF NowMonth(t) = 1 THEN 12 ELSE NowMonth(t) - 1

(***************************************************************************)
(* The rows the sheet is edited with.                                      *)
(***************************************************************************)
Cells(date, first, price) ==
    [k \in 1..NumCols |-> IF k = 1 THEN date ELSE IF k = 2 THEN first ELSE price]

\* the header: every column named
Header == Cells("Date", "h", "h")

\* a complete row of December 2023
RowA == Cells("2023-12-05", "1,5", "7")

\* RowA with one price corrected
RowB == [RowA EXCEPT ![2] = "16"]

\* RowA being entered: the last price still blank
RowP == [RowA EXCEPT ![NumCols] = " "]

\* a complete row of January 2024 none of whose prices parses
RowX == Cells("15-Jan-2024", "n/a", "x")

RowPool == {RowA, RowB, RowP, RowX}

\* RowA with one price that does not parse
RowM == [RowA EXCEPT ![3] = "n/a"]

(***************************************************************************)
(* The state record and the state file.                                    *)
(***************************************************************************)
default_state ==
    [last_processed_row |-> 0, last_row_hash |-> None, last_monthly_alert |-> None]

\* the file: missing, unreadable as JSON ("corrupt"), or the record save_state wrote
MissingFile == [kind |-> "missing", content |-> default_state]

CorruptFile == [kind |-> "corrupt", content |-> default_state]

JsonFile(st) == [kind |-> "json", content |-> st]

\* a file open() or read() fails on with an IOError (no permission, a directory)
UnreadableFile == [kind |-> "unreadable", content |-> default_state]

\* a file whose bytes are not text in the encoding open() reads with: the read inside
\* json.load raises UnicodeDecodeError, a ValueError that is neither a JSONDecodeError
\* nor an IOError
UndecodableFile == [kind |-> "undecodable", content |-> default_state]

\* the JSON values that are not objects, by their Python type after json.load
NonDicts == {[json |-> t] : t \in {"list", "str", "int", "NoneType"}}

\* the files that hold valid JSON other than an object
ForeignFiles == {JsonFile(v) : v \in NonDicts}

\* the value has the dict method get
is_dict(v) == "json" \notin DOMAIN v

\* load_state leaves the exception of the read uncaught
load_state_raises(f) == f.kind = "undecodable"

\* what load_state returns when it returns: the value json.load gave, whatever its
\* type, or the defaults
load_state(f) == IF f.kind = "json" THEN f.content ELSE default_state

\* main ends in an uncaught exception before it reads the clock: in load_state, or in
\* state.get("last_monthly_alert") (AttributeError) when the value loaded is not a dict
main_raises(f) == load_state_raises(f) \/ ~is_dict(load_state(f))

VARIABLES
    sheet,                  \* the rows of the worksheet, header first
    file,                   \* the state file
    now,                    \* the clock tick of the latest invocation
    pc,                     \* where the invocation stands; "idle" between invocations
    state,                  \* main: the state dict
    last_monthly_alert,     \* main: state.get("last_monthly_alert") at load
    state_updated,          \* main: state_updated
    attempt,                \* check_and_process_daily_data: attempt
    latest_complete_index,  \* check_and_process_daily_data: latest_complete_index
    current_row_hash,       \* check_and_process_daily_data: current_row_hash
    card,                   \* the payload being sent
    run,                    \* history of this invocation: what it loaded, posted, wrote
    monthly_delivered,      \* history: the month key of the latest monthly alert answered 200
    dirty,                  \* history: the sheet was edited since the daily path's last fetch
    retry_due,              \* history: the (index, hash) whose alert was not persisted, and
                            \* why ("failed": not delivered, "killed": delivered, then the
                            \* process was killed), while the sheet is as its fetch saw it;
                            \* month: the key of the monthly alert delivered by an
                            \* invocation killed before its save, until the monthly path
                            \* of a later invocation has run
    settled,                \* history: "new" / "update" while the sheet is as the fetch of
                            \* the last persisted daily alert saw it, else "none"
    call,                   \* the frame of the one function applied on its own (a retry
                            \* loop stepped attempt by attempt, load_state, a row
                            \* function): its arguments, its locals and what it returned
    passed_over             \* history, kept when on: the indices of the complete rows
                            \* beyond last_processed_row and below the latest complete
                            \* row at a pass of the daily path that went on to send

locals == <<state, last_monthly_alert, state_updated, attempt,
            latest_complete_index, current_row_hash, card, run>>

history == <<monthly_delivered, dirty, retry_due, settled>>

vars == <<sheet, file, now, pc, locals, history, call, passed_over>>

\* the history of rows passed over is not kept
NotNoted == [on |-> FALSE, rows |-> {}]

\* no function is applied on its own
NoCall == [fn |-> "none"]

NoPair == <<NoIndex, None>>

NoRetry == [pair |-> NoPair, why |-> "none", month |-> None]

NoCard == [cardId |-> "none", title |-> "", subtitle |-> ""]

\* loaded: the state as load_state returned it; daily_ok, monthly_ok: the alerts answered
\* 200; daily_kind, daily_pair: "new" / "update" and the (index, hash) of the row of the
\* daily alert answered 200; daily_fetch_failed, monthly_fetch_failed: the path's fetch
\* raised; writes: the calls of save_state
NoRun == [loaded |-> default_state, daily_ok |-> 0, daily_kind |-> "none",
          daily_pair |-> NoPair, monthly_ok |-> 0, daily_fetch_failed |-> FALSE,
          monthly_fetch_failed |-> FALSE, writes |-> 0]

Pair(st) == <<st.last_processed_row, st.last_row_hash>>

\* the locals between invocations
IdleLocals ==
    /\ state' = default_state
    /\ last_monthly_alert' = None
    /\ state_updated' = FALSE
    /\ attempt' = 0
    /\ latest_complete_index' = NoIndex
    /\ current_row_hash' = None
    /\ card' = NoCard
    /\ run' = NoRun

Init ==
    /\ sheet = <<Header>>
    /\ file = MissingFile
    /\ now = 0
    /\ pc = "idle"
    /\ state = default_state
    /\ last_monthly_alert = None
    /\ state_updated = FALSE
    /\ attempt = 0
    /\ latest_complete_index = NoIndex
    /\ current_row_hash = None
    /\ card = NoCard
    /\ run = NoRun
    /\ monthly_delivered = None
    /\ dirty = FALSE
    /\ retry_due = NoRetry
    /\ settled = "none"
    /\ call = NoCall
    /\ passed_over = NotNoted

(***************************************************************************)
(* The worksheet is edited by its users.  It is read only by a fetch, so   *)
(* an edit is taken at the points a fetch follows: between invocations,    *)
(* during the sleep before a re-fetch of an entry in progress, and before  *)
(* the monthly path's fetch.  Between two fetches of one invocation the    *)
(* edits amount to one step (a row appended, replaced or deleted); any     *)
(* number of steps is taken between invocations.                           *)
(***************************************************************************)
CanEdit ==
    \/ pc = "idle"
    \/ pc = "daily_fetch" /\ attempt > 0 /\ ~dirty
    \/ pc = "monthly_fetch" /\ ~dirty

Edited ==
    /\ dirty' = (pc # "idle")
    /\ retry_due' = NoRetry
    /\ settled' = "none"
    /\ UNCHANGED <<file, now, pc, locals, monthly_delivered>>
    /\ UNCHANGED call
    /\ UNCHANGED passed_over

AppendRow ==
    /\ CanEdit
    /\ Len(sheet) < MaxRows + 1
    /\ \E r \in RowPool : sheet' = Append(sheet, r)
    /\ Edited

ReplaceRow ==
    /\ CanEdit
    /\ \E i \in 2..Len(sheet) : \E r \in RowPool \ {sheet[i]} :
           sheet' = [sheet EXCEPT ![i] = r]
    /\ Edited

DeleteLastRow ==
    /\ CanEdit
    /\ Len(sheet) > 1
    /\ sheet' = SubSeq(sheet, 1, Len(sheet) - 1)
    /\ Edited

(***************************************************************************)
(* get_sheet_data_with_retry.                                              *)
(***************************************************************************)
FetchOutcomes == {"ok", "rate_limited", "api_error", "error"}

\* what attempt number a of max_retries does on an outcome: return the data, go round
\* again, or raise (after a rate limit on the last attempt the loop is left and
\* "Max retries exceeded" is raised)
FetchStepAt(outcome, a, max_retries) ==
    CASE outcome = "ok" -> "return"
      [] outcome = "rate_limited" -> IF a + 1 < max_retries THEN "retry" ELSE "raise"
      [] outcome = "api_error" -> "raise"
      [] OTHER -> IF a < max_retries - 1 THEN "retry" ELSE "raise"

\* the same with the default max_retries
FetchStep(outcome, a) == FetchStepAt(outcome, a, MaxAttempts)

\* the loop from attempt a on, over the outcomes of its attempts: "return" or "raise"
\* (the loop left without a return raises "Max retries exceeded")
RECURSIVE FetchRun(_, _)
FetchRun(outcomes, a) ==
    IF a >= MaxAttempts \/ a >= Len(outcomes) THEN "raise"
    ELSE IF FetchStep(outcomes[a + 1], a) = "retry" THEN FetchRun(outcomes, a + 1)
    ELSE FetchStep(outcomes[a + 1], a)

get_sheet_data_with_retry(outcomes) == FetchRun(outcomes, 0)

\* k failures of one kind, then a last outcome
Script(k, failure, last) == [j \in 1..(k + 1) |-> IF j <= k THEN failure ELSE last]

FetchScripts ==
    {Script(k, f, l) : k \in 0..MaxAttempts, f \in {"rate_limited", "error"},
                       l \in {"ok", "api_error"}}

\* some course of the attempts ends the call with this result
FetchCan(result) ==
    (\E outcomes \in FetchScripts : get_sheet_data_with_retry(outcomes) = result) = TRUE

(***************************************************************************)
(* send_webhook_with_retry.                                                *)
(***************************************************************************)
\* retry_after: the Retry-After header, "" when the response has none
Responses ==
    [kind : {"http"}, status : {200, 429, 503, 500, 404}, retry_after : {"", "-1"}]
        \cup [kind : {"timeout", "request_error"}, status : {0}, retry_after : {""}]

\* delay = int(retry_after) is taken: the header is there and int() accepts it
Hinted(resp) == resp.retry_after # "" /\ ParseInt(resp.retry_after).ok

\* what attempt number a of max_retries does on a response: return True, return False, go
\* round again, or let the ValueError of time.sleep (a negative delay) escape
SendStepAt(resp, a, max_retries) ==
    LET again == IF a + 1 < max_retries THEN "retry" ELSE "false"
    IN  CASE resp.kind # "http" -> again
          [] resp.kind = "http" /\ resp.status = 200 -> "true"
          [] resp.kind = "http" /\ resp.status \in {429, 503} ->
                 IF Hinted(resp) /\ ParseInt(resp.retry_after).val < 0
                 THEN "ValueError" ELSE again
          [] resp.kind = "http" /\ resp.status >= 500 /\ resp.status \notin {429, 503} -> again
          [] OTHER -> "false"

\* the same with the default max_retries
SendStep(resp, a) == SendStepAt(resp, a, MaxAttempts)

\* the loop from attempt a on, over the responses to its attempts: "true" or "false"
\* (the loop left without a return returns False)
RECURSIVE SendRun(_, _)
SendRun(responses, a) ==
    IF a >= MaxAttempts \/ a >= Len(responses) THEN "false"
    ELSE IF SendStep(responses[a + 1], a) = "retry" THEN SendRun(responses, a + 1)
    ELSE SendStep(responses[a + 1], a)

send_webhook_with_retry(responses) == SendRun(responses, 0)

SendScripts ==
    {Script(k, f, l) : k \in 0..MaxAttempts,
                       f \in {r \in Responses : /\ r.kind # "http" \/ r.status \in {429, 500}
                                                /\ r.retry_after = ""},
                       l \in {r \in Responses :
                                 /\ r.kind = "http"
                                 /\ \/ r.status \in {200, 404} /\ r.retry_after = ""
                                    \/ r.status = 429 /\ r.retry_after = "-1"}}

\* some course of the attempts ends the call with this result
SendCan(result) ==
    (\E responses \in SendScripts : send_webhook_with_retry(responses) = result) = TRUE

(***************************************************************************)
(* The retry loops attempt by attempt, with the delays they sleep.  A      *)
(* delay d is the number Scale * d.                                        *)
(***************************************************************************)
\* random.uniform(0, 1)
Jitters == 0..(Scale - 1)

\* (2 ** attempt) + random.uniform(0, 1)
Backoff(a, jitter) == Scale * (2 ^ a) + jitter

\* min(delay, 60)
Capped(delay) == IF delay < Scale * MaxDelay THEN delay ELSE Scale * MaxDelay

\* no time.sleep
NoSleep == 0 - 1

\* no attempt yet
NoOutcome == [kind |-> "none", status |-> 0, rate_limit_text |-> FALSE, retry_after |-> ""]

\* what an attempt of the fetch meets: the data, a gspread APIError (status 0: the error
\* has no response; rate_limit_text: 'rateLimitExceeded' in str(e); retry_after: the
\* Retry-After header of its response), or another exception
FetchResults ==
    [kind : {"ok", "error"}, status : {0}, rate_limit_text : {FALSE}, retry_after : {""}]
        \cup [kind : {"api_error"}, status : {429, 503, 403, 400, 0},
              rate_limit_text : BOOLEAN, retry_after : {"", "2"}]

\* mutant: every 403 is taken for a rate limit
FetchClass_any_403(e) ==
    CASE e.kind = "ok" -> "ok"
      [] e.kind = "api_error" ->
             IF e.status \in {429, 503, 403} THEN "rate_limited" ELSE "api_error"
      [] OTHER -> "error"

\* error_code in (429, 503) or (error_code == 403 and 'rateLimitExceeded' in str(e))
FetchClass(e) ==
    CASE e.kind = "ok" -> "ok"
      [] e.kind = "api_error" ->
             IF e.status \in {429, 503} \/ (e.status = 403 /\ e.rate_limit_text)
             THEN "rate_limited" ELSE "api_error"
      [] OTHER -> "error"

\* the time.sleep of attempt number a of the fetch
FetchSleep(e, a, max_retries, jitter) ==
    CASE FetchClass(e) = "rate_limited" -> Capped(Backoff(a, jitter))
      [] FetchClass(e) = "error" /\ a < max_retries - 1 -> Backoff(a, jitter)
      [] OTHER -> NoSleep

\* the Retry-After headers of the responses
Hints == {"", "2", "90", "-1", "soon"}

\* what an attempt of the delivery meets
Replies ==
    [kind : {"http"}, status : {200, 429, 503, 500, 404}, retry_after : Hints]
        \cup [kind : {"timeout", "request_error"}, status : {0}, retry_after : {""}]

\* the time.sleep of attempt number a of the delivery (none where time.sleep raises)
SendSleep(resp, a, jitter) ==
    CASE resp.kind # "http" -> Backoff(a, jitter)
      [] resp.kind = "http" /\ resp.status = 200 -> NoSleep
      [] resp.kind = "http" /\ resp.status \in {429, 503} ->
             IF Hinted(resp)
             THEN (IF ParseInt(resp.retry_after).val < 0 THEN NoSleep
                   ELSE Capped(Scale * ParseInt(resp.retry_after).val))
             ELSE Capped(Backoff(a + 1, jitter))
      [] resp.kind = "http" /\ resp.status >= 500 /\ resp.status \notin {429, 503} ->
             Backoff(a, jitter)
      [] OTHER -> NoSleep

\* the frame of a retry loop at its call: attempt is the loop variable, requests the
\* attempts made, last what the latest attempt met, slept the delay slept after it
RetryFrame(fn, max_retries) ==
    [fn |-> fn, max_retries |-> max_retries, attempt |-> NoIndex, requests |-> 0,
     last |-> NoOutcome, slept |-> NoSleep, result |-> "running"]

\* the variables of the program proper
program == <<sheet, file, now, pc, locals, history, passed_over>>

\* one pass of the loop body of get_sheet_data_with_retry
FetchAttempt ==
    /\ call.fn = "get_sheet_data_with_retry"
    /\ call.result = "running"
    /\ call.requests < call.max_retries
    /\ \E e \in FetchResults : \E jitter \in Jitters :
       \E step \in {FetchStepAt(FetchClass(e), call.requests, call.max_retries)} :
           call' = [call EXCEPT !.attempt = call.requests,
                                !.requests = @ + 1,
                                !.last = e,
                                !.slept = FetchSleep(e, call.requests, call.max_retries,
                                                     jitter),
                                !.result = IF step = "retry" THEN "running" ELSE step]
    /\ UNCHANGED program

\* one pass of the loop body of send_webhook_with_retry
SendAttempt ==
    /\ call.fn = "send_webhook_with_retry"
    /\ call.result = "running"
    /\ call.requests < call.max_retries
    /\ \E resp \in Replies : \E jitter \in Jitters :
       \E step \in {SendStepAt(resp, call.requests, call.max_retries)} :
           call' = [call EXCEPT !.attempt = call.requests,
                                !.requests = @ + 1,
                                !.last = resp,
                                !.slept = SendSleep(resp, call.requests, jitter),
                                !.result = IF step = "retry" THEN "running" ELSE step]
    /\ UNCHANGED program

(***************************************************************************)
(* The row functions applied on their own.                                 *)
(***************************************************************************)
\* cells that strip() leaves nothing of, and cells it leaves something of
BlankCells == {"", " ", "  "}

DateCells == BlankCells \cup {"2024-01-15", " 5 "}

\* a row of len cells: the date cell, then prices, those at the places in blanks blank
RowOf(len, date, blanks, blank) ==
    [k \in 1..len |-> IF k = 1 THEN date ELSE IF k \in blanks THEN blank ELSE "7"]

\* the rows of every length up to NumCols + MaxExtra, with no price cell, one price cell
\* or every price cell blank
Rows ==
    {RowOf(len, date, blanks, blank) :
        len \in 0..(NumCols + MaxExtra), date \in DateCells,
        blanks \in {{}} \cup {{k} : k \in 2..(NumCols + MaxExtra)}
                        \cup {2..(NumCols + MaxExtra)},
        blank \in BlankCells}

\* Python's str() of a bool
Bool(b) == IF b THEN "True" ELSE "False"

\* the frame of the two row predicates applied to one row
RowFrame(row) ==
    [fn |-> "row", row |-> row, complete |-> "pending", started |-> "pending"]

IsRowComplete ==
    /\ call.fn = "row"
    /\ call.complete = "pending"
    /\ call' = [call EXCEPT !.complete = Bool(is_row_complete(call.row))]
    /\ UNCHANGED program

IsRowIncompleteButStarted ==
    /\ call.fn = "row"
    /\ call.started = "pending"
    /\ call' = [call EXCEPT !.started = Bool(is_row_incomplete_but_started(call.row))]
    /\ UNCHANGED program

\* the rows the lists given to the finders are made of: the header, a complete row, a
\* row in progress, a full row without a date, a row of two cells, a row of no cell
FinderRows ==
    {Header, RowA, RowP, [RowA EXCEPT ![1] = " "], <<"2024-01-15", "7">>, <<>>}

\* the lists of at most MaxRows + 1 rows, whatever their first row
Lists == UNION {[1..n -> FinderRows] : n \in 0..(MaxRows + 1)}

\* a finder has not returned yet
Pending == 0 - 2

\* the frame of the two finders applied to one list
FinderFrame(data) ==
    [fn |-> "finder", data |-> data, complete_index |-> Pending, date_index |-> Pending]

GetLatestCompleteRow ==
    /\ call.fn = "finder"
    /\ call.complete_index = Pending
    /\ call' = [call EXCEPT !.complete_index = get_latest_complete_row(call.data)]
    /\ UNCHANGED program

GetLatestRowWithDate ==
    /\ call.fn = "finder"
    /\ call.date_index = Pending
    /\ call' = [call EXCEPT !.date_index = get_latest_row_with_date(call.data)]
    /\ UNCHANGED program

(***************************************************************************)
(* main, to the call of check_and_process_daily_data.                      *)
(***************************************************************************)
Start ==
    /\ pc = "idle"
    /\ ~main_raises(file)
    /\ \E t \in now..MaxTick : now' = t
    /\ state' = load_state(file)
    /\ last_monthly_alert' = load_state(file).last_monthly_alert
    /\ state_updated' = FALSE
    /\ attempt' = 0
    /\ run' = [NoRun EXCEPT !.loaded = load_state(file)]
    /\ pc' = "daily_fetch"
    /\ UNCHANGED <<sheet, file, latest_complete_index, current_row_hash, card, history>>
    /\ UNCHANGED call
    /\ UNCHANGED passed_over

\* authenticate_google_sheets raises: main logs and returns
StartAuthFails ==
    /\ pc = "idle"
    /\ ~main_raises(file)
    /\ \E t \in now..MaxTick : t # now /\ now' = t
    /\ UNCHANGED <<sheet, file, pc, locals, history>>
    /\ UNCHANGED call
    /\ UNCHANGED passed_over

\* load_state or state.get raises: the process ends with a traceback, nothing else done
StartRaises ==
    /\ pc = "idle"
    /\ main_raises(file)
    /\ pc' = "fatal"
    /\ UNCHANGED <<sheet, file, now, locals, history>>
    /\ UNCHANGED call
    /\ UNCHANGED passed_over

(***************************************************************************)
(* check_and_process_daily_data.                                           *)
(***************************************************************************)
is_new_row(index, last_processed_row) == index > last_processed_row

\* mutant: an unchanged row at the last processed index counts as changed
is_data_changed_ignores_hash(index, row_hash, last_processed_row, last_row_hash) ==
    index = last_processed_row

\* mutant: a changed hash counts at any index
is_data_changed_ignores_index(index, row_hash, last_processed_row, last_row_hash) ==
    row_hash # last_row_hash

is_data_changed(index, row_hash, last_processed_row, last_row_hash) ==
    index = last_processed_row /\ row_hash # last_row_hash

\* mutant: an entry in progress does not hold back a complete row that is new
is_incomplete_new_row_unless_new_complete(data, last_processed_row) ==
    LET latest_any_index == get_latest_row_with_date(data)
    IN  /\ latest_any_index # NoIndex
        /\ latest_any_index > last_processed_row
        /\ is_row_incomplete_but_started(data[latest_any_index + 1])
        /\ ~(get_latest_complete_row(data) > last_processed_row)

is_incomplete_new_row(data, last_processed_row) ==
    LET latest_any_index == get_latest_row_with_date(data)
    IN  /\ latest_any_index # NoIndex
        /\ latest_any_index > last_processed_row
        /\ is_row_incomplete_but_started(data[latest_any_index + 1])

\* mutant: one more re-fetch than max_retries
keep_waiting_once_more(att) == att <= MaxIncompleteRetries

\* if attempt < max_retries: sleep and fetch again
keep_waiting(att) == att < MaxIncompleteRetries

\* one pass of the loop body over the fetched data, index being the
\* latest_complete_index found in it: "wait" (sleep and fetch again), "give_up"
\* (return False), "send", or "none" (fall to the break, return False)
DailyDecision(data, index, st, att) ==
    IF is_incomplete_new_row(data, st.last_processed_row)
    THEN (IF keep_waiting(att) THEN "wait" ELSE "give_up")
    ELSE IF index = NoIndex THEN "none"
    ELSE IF ~(\/ is_new_row(index, st.last_processed_row)
              \/ is_data_changed(index, compute_row_hash(data[index + 1]),
                                 st.last_processed_row, st.last_row_hash))
    THEN "none"
    ELSE IF calculate_daily_average(data[index + 1]).n = 0 THEN "none"
    ELSE "send"

\* mutant: the title of a new entry whatever is_update is
format_daily_card_never_update(date_str, daily_avg, is_update) ==
    [cardId |-> "daily-price-alert", title |-> "DOC Price Alert", subtitle |-> date_str,
     daily_average |-> daily_avg]

\* the card: its title, its subtitle and the "Daily Average" of its summary, the average
\* kept as the pair it is the quotient of
format_daily_card(date_str, daily_avg, is_update) ==
    [cardId |-> "daily-price-alert",
     title |-> IF is_update THEN "DOC Price Update" ELSE "DOC Price Alert",
     subtitle |-> date_str,
     daily_average |-> daily_avg]

\* check_and_process_daily_data returns to main: its locals are gone
DailyReturn ==
    /\ pc' = "monthly_gate"
    /\ attempt' = 0
    /\ latest_complete_index' = NoIndex
    /\ current_row_hash' = None
    /\ card' = NoCard

\* the fetch raises: check_and_process_daily_data logs and returns False
DailyFetchFails ==
    /\ pc = "daily_fetch"
    /\ FetchCan("raise")
    /\ run' = [run EXCEPT !.daily_fetch_failed = TRUE]
    /\ DailyReturn
    /\ UNCHANGED <<sheet, file, now, state, last_monthly_alert, state_updated, history>>
    /\ UNCHANGED call
    /\ UNCHANGED passed_over

\* an entry is in progress: sleep retry_delay and fetch again
DailyWait ==
    /\ attempt' = attempt + 1
    /\ UNCHANGED <<pc, latest_complete_index, current_row_hash, card>>

\* still in progress after max_retries re-fetches: return False
DailyGiveUp == DailyReturn

\* nothing new, or a row without an average: break, return False
DailyNothing == DailyReturn

\* a new or changed complete row: build the card and start sending it
DailyPrepare(index) ==
    /\ latest_complete_index' = index
    /\ current_row_hash' = compute_row_hash(sheet[index + 1])
    /\ card' = format_daily_card(sheet[index + 1][1],
                   calculate_daily_average(sheet[index + 1]),
                   is_data_changed(index, compute_row_hash(sheet[index + 1]),
                                   state.last_processed_row, state.last_row_hash))
    /\ pc' = "daily_send"
    /\ UNCHANGED attempt

\* the complete rows of data beyond last_processed_row and below index
PassedOver(data, index, last_processed_row) ==
    {i \in 1..(index - 1) : i > last_processed_row /\ is_row_complete(data[i + 1])}

\* the fetch returns the sheet: one pass of the loop body over it
DailyEvaluated ==
    /\ pc = "daily_fetch"
    /\ FetchCan("return")
    /\ \E index \in {get_latest_complete_row(sheet)} :
       \E decision \in {DailyDecision(sheet, index, state, attempt)} :
           \/ decision = "wait" /\ DailyWait
           \/ decision = "give_up" /\ DailyGiveUp
           \/ decision = "none" /\ DailyNothing
           \/ decision = "send" /\ DailyPrepare(index)
    /\ passed_over' =
           IF passed_over.on /\ DailyDecision(sheet, get_latest_complete_row(sheet),
                                              state, attempt) = "send"
           THEN [passed_over EXCEPT
                    !.rows = @ \cup PassedOver(sheet, get_latest_complete_row(sheet),
                                               state.last_processed_row)]
           ELSE passed_over
    /\ dirty' = FALSE
    /\ UNCHANGED <<sheet, file, now, state, last_monthly_alert, state_updated, run,
                   monthly_delivered, retry_due, settled>>
    /\ UNCHANGED call

\* mutant: the index is set without the hash
DailyCommit_index_only(st, index, row_hash) == [st EXCEPT !.last_processed_row = index]

\* mutant: last_processed_row moves on by one row
DailyCommit_one_row_on(st, index, row_hash) ==
    [st EXCEPT !.last_processed_row = @ + 1, !.last_row_hash = row_hash]

\* what a delivered daily alert makes of the state
DailyCommit(st, index, row_hash) ==
    [st EXCEPT !.last_processed_row = index, !.last_row_hash = row_hash]

\* mutant: the state is set before the delivery is known to have succeeded
DailyAbandon_commits(st, index, row_hash) == DailyCommit(st, index, row_hash)

\* mutant: as DailyAbandon_commits, for the hash alone
DailyAbandon_keeps_hash(st, index, row_hash) == [st EXCEPT !.last_row_hash = row_hash]

\* what a failed daily alert makes of the state
DailyAbandon(st, index, row_hash) == st

DailySendOk ==
    /\ pc = "daily_send"
    /\ SendCan("true")
    /\ state' = DailyCommit(state, latest_complete_index, current_row_hash)
    /\ state_updated' = TRUE
    /\ run' = [run EXCEPT !.daily_ok = @ + 1,
                          !.daily_kind = IF card.title = "DOC Price Update"
                                         THEN "update" ELSE "new",
                          !.daily_pair = <<latest_complete_index, current_row_hash>>]
    /\ retry_due' = [NoRetry EXCEPT !.month = retry_due.month]
    /\ DailyReturn
    /\ UNCHANGED <<sheet, file, now, last_monthly_alert, monthly_delivered, dirty, settled>>
    /\ UNCHANGED call
    /\ UNCHANGED passed_over

DailySendFails ==
    /\ pc = "daily_send"
    /\ SendCan("false")
    /\ state' = DailyAbandon(state, latest_complete_index, current_row_hash)
    /\ retry_due' = IF dirty THEN [NoRetry EXCEPT !.month = retry_due.month]
                    ELSE [pair |-> <<latest_complete_index, current_row_hash>>,
                          why |-> "failed", month |-> retry_due.month]
    /\ DailyReturn
    /\ UNCHANGED <<sheet, file, now, last_monthly_alert, state_updated, run,
                   monthly_delivered, dirty, settled>>
    /\ UNCHANGED call
    /\ UNCHANGED passed_over

\* send_webhook_with_retry lets the ValueError of time.sleep escape: nothing catches it
\* and main ends with the exception
DailySendRaises ==
    /\ pc = "daily_send"
    /\ SendCan("ValueError")
    /\ pc' = "idle"
    /\ IdleLocals
    /\ retry_due' = IF dirty THEN [NoRetry EXCEPT !.month = retry_due.month]
                    ELSE [pair |-> <<latest_complete_index, current_row_hash>>,
                          why |-> "failed", month |-> retry_due.month]
    /\ dirty' = FALSE
    /\ UNCHANGED <<sheet, file, now, monthly_delivered, settled, call, passed_over>>

(***************************************************************************)
(* main, the monthly path.                                                 *)
(***************************************************************************)
\* mutant: the month key is not compared
monthly_due_ignores_key(t, last_alert) == NowDay(t) = 1

\* now.day == 1 and last_monthly_alert != current_month_key
monthly_due(t, last_alert) == NowDay(t) = 1 /\ last_alert # current_month_key(t)

format_monthly_card(t) ==
    [cardId |-> "monthly-summary",
     title |-> "Monthly DOC Price Summary",
     subtitle |-> NumStr(prev_year(t), 4) \o "-" \o NumStr(prev_month(t), 2)]

\* mutant: a monthly fetch that raised marks the month as alerted
MonthlyFetchAbandon_marks(st, key) == [st EXCEPT !.last_monthly_alert = key]

\* what a monthly fetch that raised makes of the state
MonthlyFetchAbandon(st, key) == st

MonthlyDue ==
    /\ pc = "monthly_gate"
    /\ monthly_due(now, last_monthly_alert)
    /\ pc' = "monthly_fetch"
    /\ UNCHANGED <<sheet, file, now, state, last_monthly_alert, state_updated, attempt,
                   latest_complete_index, current_row_hash, card, run, history>>
    /\ UNCHANGED call
    /\ UNCHANGED passed_over

MonthlySkip ==
    /\ pc = "monthly_gate"
    /\ ~monthly_due(now, last_monthly_alert)
    /\ pc' = "save"
    /\ retry_due' = [retry_due EXCEPT !.month = None]
    /\ UNCHANGED <<sheet, file, now, locals, monthly_delivered, dirty, settled>>
    /\ UNCHANGED call
    /\ UNCHANGED passed_over

\* the fetch raises: main logs and goes on to the save
MonthlyFetchFails ==
    /\ pc = "monthly_fetch"
    /\ FetchCan("raise")
    /\ run' = [run EXCEPT !.monthly_fetch_failed = TRUE]
    /\ state' = MonthlyFetchAbandon(state, current_month_key(now))
    /\ pc' = "save"
    /\ retry_due' = [retry_due EXCEPT !.month = None]
    /\ UNCHANGED <<sheet, file, now, last_monthly_alert, state_updated, attempt,
                   latest_complete_index, current_row_hash, card,
                   monthly_delivered, dirty, settled>>
    /\ UNCHANGED call
    /\ UNCHANGED passed_over

\* no complete row of the previous month: main logs and goes on to the save
MonthlyNoData ==
    /\ pc' = "save"
    /\ UNCHANGED card

MonthlyPrepare ==
    /\ card' = format_monthly_card(now)
    /\ pc' = "monthly_send"

\* the fetch returns the sheet: the rows of the previous month are looked up
MonthlyEvaluated ==
    /\ pc = "monthly_fetch"
    /\ FetchCan("return")
    /\ \E month_data \in {get_month_data(sheet, prev_year(now), prev_month(now))} :
           \/ month_data = <<>> /\ MonthlyNoData
           \/ month_data # <<>> /\ MonthlyPrepare
    /\ retry_due' = [retry_due EXCEPT !.month = None]
    /\ UNCHANGED <<sheet, file, now, state, last_monthly_alert, state_updated, attempt,
                   latest_complete_index, current_row_hash, run,
                   monthly_delivered, dirty, settled>>
    /\ UNCHANGED call
    /\ UNCHANGED passed_over

\* mutant: the monthly path also clears the hash of the daily path
MonthlyCommit_clears_hash(st, key) ==
    [st EXCEPT !.last_monthly_alert = key, !.last_row_hash = None]

\* what a delivered monthly alert makes of the state
MonthlyCommit(st, key) == [st EXCEPT !.last_monthly_alert = key]

MonthlySendOk ==
    /\ pc = "monthly_send"
    /\ SendCan("true")
    /\ state' = MonthlyCommit(state, current_month_key(now))
    /\ state_updated' = TRUE
    /\ run' = [run EXCEPT !.monthly_ok = @ + 1]
    /\ monthly_delivered' = current_month_key(now)
    /\ pc' = "save"
    /\ UNCHANGED <<sheet, file, now, last_monthly_alert, attempt,
                   latest_complete_index, current_row_hash, card,
                   dirty, retry_due, settled>>
    /\ UNCHANGED call
    /\ UNCHANGED passed_over

MonthlySendFails ==
    /\ pc = "monthly_send"
    /\ SendCan("false")
    /\ pc' = "save"
    /\ UNCHANGED <<sheet, file, now, locals, history>>
    /\ UNCHANGED call
    /\ UNCHANGED passed_over

\* send_webhook_with_retry lets the ValueError of time.sleep escape: the except of the
\* monthly path logs it and main goes on to the save
MonthlySendRaises ==
    /\ pc = "monthly_send"
    /\ SendCan("ValueError")
    /\ pc' = "save"
    /\ UNCHANGED <<sheet, file, now, locals, history, call, passed_over>>

(***************************************************************************)
(* main, the save.                                                         *)
(***************************************************************************)
\* mutant: the state is saved whether or not it was updated
should_save_always(updated) == TRUE

\* if state_updated: save_state(state)
should_save(updated) == updated

Save ==
    /\ pc = "save"
    /\ should_save(state_updated)
    /\ file' = JsonFile(state)
    /\ run' = [run EXCEPT !.writes = @ + 1]
    /\ pc' = "exit"
    /\ UNCHANGED <<sheet, now, state, last_monthly_alert, state_updated, attempt,
                   latest_complete_index, current_row_hash, card, history>>
    /\ UNCHANGED call
    /\ UNCHANGED passed_over

NoSave ==
    /\ pc = "save"
    /\ ~should_save(state_updated)
    /\ pc' = "exit"
    /\ UNCHANGED <<sheet, file, now, locals, history>>
    /\ UNCHANGED call
    /\ UNCHANGED passed_over

\* main returns
Finish ==
    /\ pc = "exit"
    /\ pc' = "idle"
    /\ IdleLocals
    /\ settled' = IF run.daily_ok > 0 /\ run.writes > 0 /\ ~dirty
                  THEN run.daily_kind ELSE settled
    /\ dirty' = FALSE
    /\ UNCHANGED <<sheet, file, now, monthly_delivered, retry_due>>
    /\ UNCHANGED call
    /\ UNCHANGED passed_over

(***************************************************************************)
(* The process is killed.                                                  *)
(***************************************************************************)
Killed ==
    /\ pc' = "idle"
    /\ IdleLocals
    /\ retry_due' =
           [pair |-> IF run.daily_ok > 0 /\ run.writes = 0 /\ ~dirty
                     THEN run.daily_pair ELSE retry_due.pair,
            why |-> IF run.daily_ok > 0 /\ run.writes = 0 /\ ~dirty
                    THEN "killed" ELSE retry_due.why,
            month |-> IF run.monthly_ok > 0 /\ run.writes = 0 /\ ~dirty
                      THEN current_month_key(now) ELSE retry_due.month]
    /\ dirty' = FALSE
    /\ UNCHANGED <<sheet, now, monthly_delivered, settled>>
    /\ UNCHANGED call
    /\ UNCHANGED passed_over

Crash ==
    /\ pc # "idle"
    /\ file' = file
    /\ Killed

\* killed inside save_state, after open(STATE_FILE, 'w') truncated the file and before
\* json.dump wrote all of it
CrashInSave ==
    /\ pc = "save"
    /\ state_updated
    /\ file' = CorruptFile
    /\ Killed

(***************************************************************************)
(* Specifications.                                                         *)
(***************************************************************************)
EditSheet == AppendRow \/ ReplaceRow \/ DeleteLastRow

Daily ==
    \/ DailyFetchFails
    \/ DailyEvaluated
    \/ DailySendOk \/ DailySendFails \/ DailySendRaises

Monthly ==
    \/ MonthlyDue \/ MonthlySkip
    \/ MonthlyFetchFails \/ MonthlyEvaluated
    \/ MonthlySendOk \/ MonthlySendFails \/ MonthlySendRaises

Invocation == Start \/ StartAuthFails \/ Daily \/ Monthly \/ Save \/ NoSave \/ Finish

Next == EditSheet \/ Invocation

\* invocations that run to their end
Spec == Init /\ [][Next]_vars

\* the sheets of at most MaxRows data rows
Sheets ==
    {<<Header>> \o rows : rows \in UNION {[1..n -> RowPool] : n \in 0..MaxRows}}

\* the hashes of the rows of RowPool that can be alerted
AlertHashes == {compute_row_hash(RowA), compute_row_hash(RowB)}

\* the state files invocations up to tick t leave behind
FilesAt(t) ==
    {MissingFile} \cup
    {JsonFile([last_processed_row |-> p[1], last_row_hash |-> p[2],
               last_monthly_alert |-> k]) :
         p \in {<<0, None>>} \cup ((1..MaxRows) \X AlertHashes),
         k \in {None} \cup {current_month_key(u) : u \in {v \in 0..t : NowDay(v) = 1}}}

InitSteady ==
    /\ sheet \in Sheets
    /\ now \in 0..MaxTick
    /\ file \in FilesAt(now)
    /\ pc = "idle"
    /\ state = default_state
    /\ last_monthly_alert = None
    /\ state_updated = FALSE
    /\ attempt = 0
    /\ latest_complete_index = NoIndex
    /\ current_row_hash = None
    /\ card = NoCard
    /\ run = NoRun
    /\ monthly_delivered = None
    /\ dirty = FALSE
    /\ retry_due = NoRetry
    /\ settled = "none"
    /\ call = NoCall
    /\ passed_over = NotNoted

\* The scheduler keeps starting invocations and every invocation runs to its end;
\* fetches and deliveries that are tried again and again succeed in the end.
Fairness ==
    /\ WF_vars(Invocation)
    /\ SF_vars(DailyEvaluated)
    /\ SF_vars(DailySendOk)

\* invocations against a sheet that stays as it is
SpecSteady == InitSteady /\ [][Invocation]_vars /\ Fairness

\* the program between invocations, as Init has it
Idle ==
    /\ sheet = <<Header>>
    /\ file = MissingFile
    /\ now = 0
    /\ pc = "idle"
    /\ state = default_state
    /\ last_monthly_alert = None
    /\ state_updated = FALSE
    /\ attempt = 0
    /\ latest_complete_index = NoIndex
    /\ current_row_hash = None
    /\ card = NoCard
    /\ run = NoRun
    /\ monthly_delivered = None
    /\ dirty = FALSE
    /\ retry_due = NoRetry
    /\ settled = "none"

InitRetry ==
    /\ Idle
    /\ passed_over = NotNoted
    /\ call \in {RetryFrame(fn, max_retries) :
                    fn \in {"get_sheet_data_with_retry", "send_webhook_with_retry"},
                    max_retries \in 1..MaxCeiling}

NextRetry == FetchAttempt \/ SendAttempt

\* the retry loops applied on their own, with every max_retries up to MaxCeiling
SpecRetry == InitRetry /\ [][NextRetry]_vars

\* every condition the state file can be in when an invocation starts
StateFiles ==
    UNION {FilesAt(t) : t \in 0..MaxTick}
        \cup {CorruptFile, UnreadableFile, UndecodableFile} \cup ForeignFiles

InitFiles ==
    /\ sheet \in Sheets
    /\ file \in StateFiles
    /\ now \in 0..MaxTick
    /\ pc = "idle"
    /\ state = default_state
    /\ last_monthly_alert = None
    /\ state_updated = FALSE
    /\ attempt = 0
    /\ latest_complete_index = NoIndex
    /\ current_row_hash = None
    /\ card = NoCard
    /\ run = NoRun
    /\ monthly_delivered = None
    /\ dirty = FALSE
    /\ retry_due = NoRetry
    /\ settled = "none"
    /\ call = NoCall
    /\ passed_over = NotNoted

NextFiles == Invocation \/ StartRaises

\* invocations started on every condition of the state file
SpecFiles == InitFiles /\ [][NextFiles]_vars

InitRows ==
    /\ Idle
    /\ passed_over = NotNoted
    /\ call \in {RowFrame(row) : row \in Rows} \cup {FinderFrame(data) : data \in Lists}

NextRows ==
    \/ IsRowComplete
    \/ IsRowIncompleteButStarted
    \/ GetLatestCompleteRow
    \/ GetLatestRowWithDate

\* the row predicates applied to every row of Rows, the finders to every list of Lists
SpecRows == InitRows /\ [][NextRows]_vars

InitSkips ==
    /\ Idle
    /\ call = NoCall
    /\ passed_over = [on |-> TRUE, rows |-> {}]

\* as Spec, with the history of the rows passed over kept
SpecSkips == InitSkips /\ [][Next]_vars

\* the sheets of at most MaxRows data rows, some with prices that do not parse
MixedSheets ==
    {<<Header>> \o rows :
        rows \in UNION {[1..n -> RowPool \cup {RowM}] : n \in 0..MaxRows}}

InitSheets ==
    /\ sheet \in MixedSheets
    /\ now \in 0..MaxTick
    /\ file \in FilesAt(now)
    /\ pc = "idle"
    /\ state = default_state
    /\ last_monthly_alert = None
    /\ state_updated = FALSE
    /\ attempt = 0
    /\ latest_complete_index = NoIndex
    /\ current_row_hash = None
    /\ card = NoCard
    /\ run = NoRun
    /\ monthly_delivered = None
    /\ dirty = FALSE
    /\ retry_due = NoRetry
    /\ settled = "none"
    /\ call = NoCall
    /\ passed_over = NotNoted

\* invocations against every sheet of MixedSheets, the sheet staying as it is
SpecSheets == InitSheets /\ [][Invocation]_vars

NextCrash == Next \/ Crash \/ CrashInSave

\* invocations that may be killed at any point
SpecCrash == Init /\ [][NextCrash]_vars

(***************************************************************************)
(* Properties.                                                             *)
(***************************************************************************)
\* the persisted state as the next invocation loads it
Persisted == load_state(file)

\* the (index, hash) of the latest complete row of the data, NoPair when there is none
SheetPair(data) ==
    The({IF index = NoIndex THEN NoPair ELSE <<index, compute_row_hash(data[index + 1])>> :
            index \in {get_latest_complete_row(data)}})

\* the (index, hash) of the alert being sent
SendingPair == <<latest_complete_index, current_row_hash>>

\* C1: while no daily alert of this invocation was delivered, last_processed_row and
\* last_row_hash of the state record are as loaded (and the whole record is, until the
\* monthly alert is delivered); once they differ from what was loaded they are the index
\* and hash of the row whose alert was answered with success.
C1_FailedDeliveryLeavesState ==
    /\ run.daily_ok = 0 => Pair(state) = Pair(run.loaded)
    /\ (run.daily_ok = 0 /\ run.monthly_ok = 0) => state = run.loaded /\ ~state_updated
    /\ run.daily_ok > 0 => Pair(state) = run.daily_pair

\* C1 witness: the daily alert of this invocation was sent and its delivery failed
C1_Witness ==
    /\ pc = "monthly_gate"
    /\ ~run.daily_fetch_failed
    /\ run.daily_ok = 0
    /\ retry_due.why = "failed"

\* C2: after a daily alert for row i with hash f failed, the next evaluation of the
\* unchanged sheet starts the delivery of an alert for the same i and f; and with
\* deliveries that succeed in the end, the persisted state comes to hold (i, f).
C2_FailedAlertIsRetried ==
    /\ [][(retry_due.why = "failed" /\ DailyEvaluated)
             => (pc' = "daily_send" /\ SendingPair' = retry_due.pair)]_vars
    /\ [](retry_due.why = "failed" => retry_due.pair = SheetPair(sheet))
    /\ (retry_due.why = "failed") ~> (Pair(Persisted) = SheetPair(sheet))

\* C2 witness: a later invocation is sending the alert that failed before
C2_Witness ==
    /\ pc = "daily_send"
    /\ retry_due.why = "failed"
    /\ retry_due.pair = SendingPair
    /\ run.daily_ok = 0

\* C3: while the sheet is as the fetch of the last persisted daily alert saw it, no
\* invocation sends a daily alert, and last_processed_row and last_row_hash stay those
\* of the sheet's latest complete row, in the state record and in the file.
C3_DailyPathIdempotent ==
    settled # "none" =>
        /\ pc # "daily_send"
        /\ run.daily_ok = 0
        /\ Pair(Persisted) = SheetPair(sheet)
        /\ pc # "idle" => Pair(state) = Pair(Persisted)

\* C3 witness: a further invocation has evaluated the unchanged sheet
C3_Witness ==
    /\ settled # "none"
    /\ pc = "monthly_gate"
    /\ ~run.daily_fetch_failed

\* the fetched sheet holds a correction that can be alerted: its latest complete row is
\* at last_processed_row with another hash, no newer entry is in progress, a price parses
CorrectionSeen ==
    /\ pc = "daily_fetch"
    /\ SheetPair(sheet) # NoPair
    /\ SheetPair(sheet)[1] = state.last_processed_row
    /\ SheetPair(sheet)[2] # state.last_row_hash
    /\ ~is_incomplete_new_row(sheet, state.last_processed_row)
    /\ calculate_daily_average(sheet[SheetPair(sheet)[1] + 1]).n > 0

C5_IndexNeverDecreases ==
    /\ [][Persisted'.last_processed_row >= Persisted.last_processed_row]_vars
    /\ [](/\ state.last_processed_row >= run.loaded.last_processed_row
          /\ run.daily_kind = "update"
                 => state.last_processed_row = run.loaded.last_processed_row)

\* C5 witness: the daily path has evaluated a sheet whose latest complete row lies below
\* last_processed_row and differs from the row alerted
C5_Witness ==
    /\ pc = "monthly_gate"
    /\ ~run.daily_fetch_failed
    /\ SheetPair(sheet) # NoPair
    /\ SheetPair(sheet)[1] < state.last_processed_row
    /\ SheetPair(sheet)[2] # state.last_row_hash

\* C6: an invocation whose day is not 1 never fetches for, sends or delivers a monthly
\* alert; an invocation delivers at most one; and a monthly alert is delivered only on
\* the 1st and only while none was delivered for the current month key, so invocations
\* on the 1st with the same month key deliver at most one between them and
\* last_monthly_alert is set at most once per month.
C6_MonthlyGate ==
    /\ [](NowDay(now) # 1 =>
             /\ pc \notin {"monthly_fetch", "monthly_send"}
             /\ run.monthly_ok = 0
             /\ state.last_monthly_alert = run.loaded.last_monthly_alert)
    /\ [](run.monthly_ok <= 1)
    /\ [][run'.monthly_ok > run.monthly_ok =>
             /\ NowDay(now) = 1
             /\ monthly_delivered # current_month_key(now)
             /\ Persisted.last_monthly_alert # current_month_key(now)
             /\ state'.last_monthly_alert = current_month_key(now)]_vars
    /\ [][Persisted'.last_monthly_alert # Persisted.last_monthly_alert =>
             /\ run.monthly_ok = 1
             /\ Persisted'.last_monthly_alert = current_month_key(now)]_vars

\* C6 witness: a second invocation on the 1st, in the month whose alert was delivered,
\* has passed the monthly gate without an alert
C6_Witness ==
    /\ pc = "save"
    /\ NowDay(now) = 1
    /\ monthly_delivered = current_month_key(now)
    /\ run.monthly_ok = 0

\* C7 as stated: once the daily path's fetch has failed, the invocation makes no further
\* fetch and sends no alert.
C7_FetchFailureAbortsInvocation ==
    run.daily_fetch_failed =>
        /\ pc \notin {"monthly_fetch", "monthly_send"}
        /\ run.monthly_ok = 0

\* C7 amended: a failed fetch ends the path that made it and no more.  After the daily
\* path's fetch failed, the daily path sends nothing and last_processed_row and
\* last_row_hash stay as loaded, and the invocation goes on to the monthly gate, which
\* opens as in any other invocation; after the monthly path's fetch failed, no monthly
\* alert is sent and last_monthly_alert stays as loaded.
C7_FetchFailureEndsItsPath ==
    /\ [](run.daily_fetch_failed =>
             /\ pc # "daily_send"
             /\ run.daily_ok = 0
             /\ Pair(state) = Pair(run.loaded))
    /\ [](run.monthly_fetch_failed =>
             /\ pc # "monthly_send"
             /\ run.monthly_ok = 0
             /\ state.last_monthly_alert = run.loaded.last_monthly_alert)
    /\ [][DailyFetchFails => pc' = "monthly_gate"]_vars
    /\ [][(run.daily_fetch_failed /\ (MonthlyDue \/ MonthlySkip)) =>
             (pc' = "monthly_fetch"
                 <=> (NowDay(now) = 1
                         /\ run.loaded.last_monthly_alert # current_month_key(now)))]_vars

\* C7 witness: the daily path's fetch failed and the monthly alert is being sent
C7_Witness ==
    /\ run.daily_fetch_failed
    /\ pc = "monthly_send"
    /\ card.cardId # "daily-price-alert"

\* C8: an invocation calls save_state at most once, only once both paths are over, and
\* exactly when an alert of one of them was delivered, which is exactly when the state
\* record differs from the one loaded; the file then holds the state record.
C8_SavedOnceAfterBothPaths ==
    /\ run.writes <= 1
    /\ run.writes > 0 => pc = "exit" /\ file = JsonFile(state)
    /\ pc = "exit" =>
           /\ run.writes = 1 <=> (run.daily_ok > 0 \/ run.monthly_ok > 0)
           /\ run.writes = 1 <=> state # run.loaded
    /\ pc \notin {"idle", "exit"} => Persisted = run.loaded

\* C8 witness: both paths delivered an alert and the state was written once
C8_Witness ==
    /\ pc = "exit"
    /\ run.writes = 1
    /\ run.daily_ok > 0
    /\ run.monthly_ok > 0

\* C9 as stated: after a kill between a delivery and the save, the next invocation
\* against the same sheet sends that alert again, the monthly alert as well as the daily.
C9_NextInvocationRedelivers ==
    [][/\ (retry_due.why = "killed" /\ DailyEvaluated)
             => (pc' = "daily_send" /\ SendingPair' = retry_due.pair)
       /\ (retry_due.month # None /\ (MonthlyDue \/ MonthlySkip))
             => pc' = "monthly_fetch"]_vars

\* C9 amended: a kill before the save leaves the file as it was; the next invocation
\* that gets the same sheet sends the daily alert of the same row and hash again; it
\* sends the monthly alert again when it runs on the 1st of the same month, and not at
\* all when it runs on another day; and whatever the point of the kill, the file comes
\* to hold only defaults, or the row and hash, or the month key, of an alert that was
\* delivered.
C9_AtLeastOnceUnderCrash ==
    [][/\ (retry_due.why = "killed" /\ DailyEvaluated)
             => (pc' = "daily_send" /\ SendingPair' = retry_due.pair)
       /\ (retry_due.month # None /\ (MonthlyDue \/ MonthlySkip)) =>
             /\ NowDay(now) # 1 => pc' = "save"
             /\ (NowDay(now) = 1 /\ current_month_key(now) = retry_due.month)
                    => pc' = "monthly_fetch"
       /\ (retry_due.month = current_month_key(now) /\ MonthlyEvaluated)
             => (pc' = "monthly_send" /\ card' = format_monthly_card(now))
       /\ (pc' = "idle" /\ pc \notin {"idle", "exit", "save"}) => file' = file
       /\ (file' # file /\ Pair(Persisted') # Pair(Persisted)) =>
             \/ Pair(Persisted') = Pair(default_state)
             \/ run.daily_ok > 0 /\ Pair(Persisted') = run.daily_pair
       /\ (file' # file /\ Persisted'.last_monthly_alert # Persisted.last_monthly_alert) =>
             \/ Persisted'.last_monthly_alert = None
             \/ /\ run.monthly_ok > 0
                /\ Persisted'.last_monthly_alert = monthly_delivered]_vars

\* C9 witness: after a kill between the delivery and the save, a later invocation is
\* sending the alert of the same row and hash
C9_Witness ==
    /\ retry_due.why = "killed"
    /\ pc = "daily_send"
    /\ retry_due.pair = SendingPair
    /\ Pair(Persisted) # SendingPair

\* C10: the persisted pair (last_processed_row, last_row_hash) is the default pair or an
\* index from 1 on with a hash, never one field without the other; an alert is sent for
\* the index and hash of one row of the fetched sheet; the state record's pair is the
\* loaded one or that of the alert delivered; and the persisted pair changes only to the
\* pair of the alert the invocation delivered.
C10_PairSetTogether ==
    /\ [](Persisted.last_processed_row = 0 <=> Persisted.last_row_hash = None)
    /\ [](state.last_processed_row = 0 <=> state.last_row_hash = None)
    /\ [](Pair(state) = Pair(run.loaded)
             \/ (run.daily_ok > 0 /\ Pair(state) = run.daily_pair))
    /\ [][pc' = "daily_send" /\ pc # "daily_send" =>
             /\ SendingPair' = SheetPair(sheet)
             /\ SheetPair(sheet) # NoPair]_vars
    /\ [][run'.daily_ok > run.daily_ok => run'.daily_pair = SendingPair]_vars
    /\ [][Pair(Persisted') # Pair(Persisted) =>
             /\ run.daily_ok > 0
             /\ Pair(Persisted') = run.daily_pair]_vars

\* C10 witness: a daily alert was persisted before, and the delivery of this
\* invocation's alert has failed
C10_Witness ==
    /\ Pair(Persisted) # Pair(default_state)
    /\ retry_due.why = "failed"
    /\ pc = "save"

\* C11: a fetch attempt answered 429 with Retry-After: 2 is followed by a wait of at least
\* 2 time units before the next attempt.
C11_FetchWaitsForRetryAfter ==
    (/\ call.fn = "get_sheet_data_with_retry"
     /\ call.last.kind = "api_error"
     /\ call.last.status = 429
     /\ call.last.retry_after = "2")
        => call.slept >= Scale * 2

\* C11 witness: the fetch has slept after a 429 with Retry-After: 2 and goes on to its
\* next attempt
C11_Witness ==
    /\ call.fn = "get_sheet_data_with_retry"
    /\ call.last.status = 429
    /\ call.last.retry_after = "2"
    /\ call.result = "running"
    /\ call.slept # NoSleep

\* C12: in the delivery loop, after a 429 or 503 with a Retry-After the code takes as an
\* integer h, the wait is h; with no such header the wait is the computed backoff
\* 2 ** (attempt + 1) plus jitter, capped.
C12_SendWaitsTheHint ==
    (/\ call.fn = "send_webhook_with_retry"
     /\ call.last.kind = "http"
     /\ call.last.status \in {429, 503})
        => /\ Hinted(call.last)
                  => call.slept = Scale * ParseInt(call.last.retry_after).val
           /\ ~Hinted(call.last)
                  => \E jitter \in Jitters :
                         call.slept = Capped(Backoff(call.attempt + 1, jitter))

\* C12 witness: the delivery has slept after a rate limit whose hint is above the cap
C12_Witness ==
    /\ call.fn = "send_webhook_with_retry"
    /\ call.last.status \in {429, 503}
    /\ Hinted(call.last)
    /\ ParseInt(call.last.retry_after).val > MaxDelay
    /\ call.slept # NoSleep

\* C13: a permanent failure ends the loop on the attempt where it occurs: a 4xx other than
\* 429 makes the delivery return False, an API error that is no rate-limit signal (429,
\* 503, or 403 with rateLimitExceeded) makes the fetch raise, and once a loop has ended
\* it makes no further attempt.
C13_PermanentFailureEndsLoop ==
    /\ []((/\ call.fn = "send_webhook_with_retry"
           /\ call.last.kind = "http"
           /\ call.last.status >= 400 /\ call.last.status < 500
           /\ call.last.status # 429)
              => call.result = "false" /\ call.slept = NoSleep)
    /\ []((/\ call.fn = "get_sheet_data_with_retry"
           /\ call.last.kind = "api_error"
           /\ call.last.status \notin {429, 503}
           /\ ~(call.last.status = 403 /\ call.last.rate_limit_text))
              => call.result = "raise" /\ call.slept = NoSleep)
    /\ [](call.fn # "none" => call.requests = call.attempt + 1)
    /\ [][(call.fn # "none" /\ call.result # "running") => call' = call]_vars

\* C13 witness: the delivery has returned False on a 404 that followed attempts which
\* were retried, with attempts left
C13_Witness ==
    /\ call.fn = "send_webhook_with_retry"
    /\ call.last.status = 404
    /\ call.requests > 1
    /\ call.requests < call.max_retries
    /\ call.result = "false"

\* an attempt that succeeded: the fetch got the data, the delivery was answered 200
Succeeded(e) == e.kind = "ok" \/ (e.kind = "http" /\ e.status = 200)

\* C14: whatever the attempts meet, a retry loop makes at most max_retries attempts, ends
\* at the first success with the success value, and otherwise ends with a failure the
\* caller sees: the exception from get_sheet_data_with_retry, False from
\* send_webhook_with_retry; after max_retries attempts it has ended.
C14_ExhaustionSurfacesFailure ==
    call.fn # "none" =>
        /\ call.requests <= call.max_retries
        /\ Succeeded(call.last)
               <=> call.result = (IF call.fn = "get_sheet_data_with_retry"
                                  THEN "return" ELSE "true")
        /\ (call.result # "running" /\ ~Succeeded(call.last))
               => call.result = (IF call.fn = "get_sheet_data_with_retry"
                                 THEN "raise" ELSE "false")
        /\ call.requests = call.max_retries => call.result # "running"

\* C14 witness: the delivery was rate-limited on every one of its max_retries attempts
C14_Witness ==
    /\ call.fn = "send_webhook_with_retry"
    /\ call.max_retries > 1
    /\ call.requests = call.max_retries
    /\ call.last.status = 429
    /\ call.result # "running"

\* the latest attempt slept a delay taken from a Retry-After header
SleptTheHint ==
    /\ call.fn = "send_webhook_with_retry"
    /\ call.last.kind = "http"
    /\ call.last.status \in {429, 503}
    /\ Hinted(call.last)

\* C15: for every max_retries, failure and attempt number, a delay slept by a retry loop
\* that is not a Retry-After hint is 2 ** attempt (2 ** (attempt + 1) after a rate-limited
\* delivery) plus jitter, capped at 60; no sleep exceeds 60.
C15_SleepsAreCappedBackoff ==
    (call.fn # "none" /\ call.slept # NoSleep) =>
        /\ call.slept <= Scale * MaxDelay
        /\ ~SleptTheHint =>
               \E jitter \in Jitters :
                   \/ call.slept = Capped(Backoff(call.attempt, jitter))
                   \/ /\ call.fn = "send_webhook_with_retry"
                      /\ call.last.kind = "http" /\ call.last.status \in {429, 503}
                      /\ call.slept = Capped(Backoff(call.attempt + 1, jitter))

\* C15 witness: the delivery has slept after a server error on an attempt whose
\* 2 ** attempt is above the cap
C15_Witness ==
    /\ call.fn = "send_webhook_with_retry"
    /\ call.last.kind = "http"
    /\ call.last.status = 500
    /\ 2 ^ call.attempt > MaxDelay
    /\ call.slept # NoSleep

\* the fetch of the daily path shows an entry in progress newer than last_processed_row
InProgressSeen ==
    /\ pc = "daily_fetch"
    /\ is_incomplete_new_row(sheet, state.last_processed_row)

\* a re-fetch shows the latest row with a date, newer than last_processed_row, complete
CompletedSeen ==
    /\ pc = "daily_fetch"
    /\ attempt > 0
    /\ \E i \in {get_latest_row_with_date(sheet)} :
           /\ i # NoIndex
           /\ i > state.last_processed_row
           /\ is_row_complete(sheet[i + 1])

\* the daily path waits at most max_retries times for an entry in progress and then
\* returns without an alert, the state as it was
WaitsAreBounded ==
    /\ [](attempt <= MaxIncompleteRetries)
    /\ [][(InProgressSeen /\ DailyEvaluated) =>
             /\ attempt < MaxIncompleteRetries
                    => pc' = "daily_fetch" /\ attempt' = attempt + 1
             /\ attempt = MaxIncompleteRetries
                    => /\ pc' = "monthly_gate"
                       /\ state' = state /\ state_updated' = state_updated
                       /\ run'.daily_ok = 0]_vars
    /\ [][(DailyEvaluated /\ pc' = "daily_fetch") => InProgressSeen]_vars

\* C16 as stated: the waits are bounded, and when a re-fetch shows the row complete the
\* same invocation sends the new-entry alert for it.
C16_CompletedRowIsAlerted ==
    /\ WaitsAreBounded
    /\ [][(CompletedSeen /\ DailyEvaluated) =>
             /\ pc' = "daily_send"
             /\ card'.title = "DOC Price Alert"
             /\ latest_complete_index' = get_latest_row_with_date(sheet)]_vars

\* C16 amended: the waits are bounded, and when a re-fetch shows the row complete with at
\* least one price that parses, the same invocation sends the new-entry alert for it; a
\* complete row none of whose prices parses is not alerted.
C16_InProgressRetriesBounded ==
    /\ WaitsAreBounded
    /\ [][(CompletedSeen /\ DailyEvaluated) =>
             IF calculate_daily_average(sheet[get_latest_row_with_date(sheet) + 1]).n > 0
             THEN /\ pc' = "daily_send"
                  /\ card'.title = "DOC Price Alert"
                  /\ latest_complete_index' = get_latest_row_with_date(sheet)
             ELSE pc' = "monthly_gate" /\ state' = state]_vars

\* C16 witness: after a wait, the re-fetch found the entry complete and its alert is being
\* sent
C16_Witness ==
    /\ pc = "daily_send"
    /\ attempt > 0
    /\ latest_complete_index = get_latest_row_with_date(sheet)
    /\ card.title = "DOC Price Alert"

\* C17: a step of the monthly path changes last_monthly_alert exactly when it is the
\* delivery of the monthly alert, and then to the current month key; without complete
\* rows of the previous month, after a failed fetch and after a failed delivery the state
\* record is as before; no step of the monthly path changes last_processed_row or
\* last_row_hash; and the pair of a daily alert delivered earlier in the invocation is
\* saved whatever the monthly path did.
C17_MonthlyFrame ==
    /\ [][Monthly =>
             /\ state'.last_monthly_alert # state.last_monthly_alert
                    <=> run'.monthly_ok > run.monthly_ok
             /\ run'.monthly_ok > run.monthly_ok
                    => state'.last_monthly_alert = current_month_key(now)
             /\ Pair(state') = Pair(state)]_vars
    /\ [][(\/ MonthlyFetchFails \/ MonthlySendFails \/ MonthlySendRaises
           \/ (MonthlyEvaluated /\ pc' = "save"))
             => (state' = state /\ state_updated' = state_updated)]_vars
    /\ []((pc = "exit" /\ run.daily_ok > 0) =>
             /\ run.writes = 1
             /\ Pair(Persisted) = run.daily_pair
             /\ run.monthly_ok = 0
                    => Persisted.last_monthly_alert = run.loaded.last_monthly_alert)

\* C17 witness: the daily alert was delivered, the monthly path's fetch failed, and the
\* state was saved
C17_Witness ==
    /\ pc = "exit"
    /\ run.daily_ok > 0
    /\ run.monthly_fetch_failed
    /\ run.writes = 1

\* the conditions of the state file the defaults are loaded from
DefaultingKinds == {"missing", "unreadable", "undecodable", "corrupt"}

\* C18: whatever the condition of the state file (missing, unreadable, not valid JSON,
\* valid JSON that is not the expected record), no invocation ends in a fatal error; an
\* invocation started on a missing, unreadable or malformed file holds the defaults; and
\* the file is rewritten only by an invocation one of whose deliveries succeeded.
C18_StateFileNeverFatal ==
    /\ [](pc # "fatal")
    /\ [][(pc = "idle" /\ pc' # "idle" /\ file.kind \in DefaultingKinds)
             => (pc' = "daily_fetch" /\ state' = default_state
                 /\ last_monthly_alert' = None)]_vars
    /\ [][file' # file => run.daily_ok + run.monthly_ok > 0]_vars

\* C18 witness: the state file holds a JSON list, and main has raised on it
C18_Witness ==
    /\ file = JsonFile([json |-> "list"])
    /\ pc = "fatal"

\* the row has a date cell, and it is not blank
DateCellGiven(row) == Len(row) > 0 /\ row[1] \notin BlankCells

DateGiven == DateCellGiven(call.row)

\* C19: a row of fewer than NumCols cells is never complete; a row whose first NumCols
\* cells are all non-blank is complete; a row with a non-blank date cell and a blank
\* cell among its NumCols - 1 price cells is in progress; a row whose date cell is blank
\* or missing is neither complete nor in progress.
C19_RowClassification ==
    call.fn = "row" =>
        /\ (call.complete # "pending" /\ Len(call.row) < NumCols)
               => call.complete = "False"
        /\ (call.complete # "pending" /\ Len(call.row) >= NumCols
                /\ \A i \in 1..NumCols : call.row[i] \notin BlankCells)
               => call.complete = "True"
        /\ (call.started # "pending" /\ DateGiven
                /\ \E i \in 2..NumCols : i <= Len(call.row) /\ call.row[i] \in BlankCells)
               => call.started = "True"
        /\ (call.complete # "pending" /\ ~DateGiven) => call.complete = "False"
        /\ (call.started # "pending" /\ ~DateGiven) => call.started = "False"

\* C19 witness: both predicates were applied to a row of NumCols - 1 cells, none of them
\* blank, which came out in progress and not complete
C19_Witness ==
    /\ call.fn = "row"
    /\ Len(call.row) = NumCols - 1
    /\ \A i \in 1..(NumCols - 1) : call.row[i] \notin BlankCells
    /\ call.complete = "False"
    /\ call.started = "True"

\* i is what a finder for the rows satisfying P has to return on data: the greatest
\* index from 1 on whose row satisfies P, NoIndex when there is none
LatestOf(data, i, P(_)) ==
    IF \E k \in 1..(Len(data) - 1) : P(data[k + 1])
    THEN /\ i \in 1..(Len(data) - 1)
         /\ P(data[i + 1])
         /\ \A k \in (i + 1)..(Len(data) - 1) : ~P(data[k + 1])
    ELSE i = NoIndex

\* C20: on every list of rows get_latest_complete_row returns the greatest index >= 1 of
\* a complete row and get_latest_row_with_date the greatest index >= 1 of a row whose
\* date cell is not blank; each returns None when there is no such row; index 0, the
\* header, is never returned.
C20_FindersReturnLatest ==
    call.fn = "finder" =>
        /\ call.complete_index # Pending =>
               /\ LatestOf(call.data, call.complete_index, is_row_complete)
               /\ call.complete_index # 0
        /\ call.date_index # Pending =>
               /\ LatestOf(call.data, call.date_index, DateCellGiven)
               /\ call.date_index # 0

\* C20 witness: both finders were applied to a list whose first row is complete and
\* whose only other row is in progress: no complete row, the dated row at index 1
C20_Witness ==
    /\ call.fn = "finder"
    /\ Len(call.data) = 2
    /\ is_row_complete(call.data[1])
    /\ call.complete_index = NoIndex
    /\ call.date_index = 1

\* the latest row of data with a date, the header apart, lies beyond last_processed_row
\* and has fewer than NumCols cells or a blank cell among them
InProgressAhead(data, last_processed_row) ==
    \E i \in 1..(Len(data) - 1) :
        /\ DateCellGiven(data[i + 1])
        /\ \A k \in (i + 1)..(Len(data) - 1) : ~DateCellGiven(data[k + 1])
        /\ i > last_processed_row
        /\ \/ Len(data[i + 1]) < NumCols
           \/ \E c \in 1..NumCols : data[i + 1][c] \in BlankCells

\* C21: a pass of the daily path whose fetch shows the latest row with a date beyond
\* last_processed_row and in progress sends nothing (no new-entry alert for a complete
\* row between the two, no corrected-entry alert for the row at last_processed_row) and
\* leaves the state as it is; nothing was sent or set before that pass, and a daily path
\* that returns on such a sheet returns with the state as loaded and no alert delivered.
C21_InProgressHoldsBackAlerts ==
    /\ [][(DailyEvaluated /\ InProgressAhead(sheet, state.last_processed_row)) =>
             /\ pc' \in {"daily_fetch", "monthly_gate"}
             /\ card' = NoCard
             /\ state' = state
             /\ state_updated' = state_updated
             /\ run' = run]_vars
    /\ [](pc = "daily_fetch" =>
             (state = run.loaded /\ ~state_updated /\ run.daily_ok = 0 /\ card = NoCard))
    /\ []((pc = "monthly_gate"
             /\ InProgressAhead(sheet, run.loaded.last_processed_row)) =>
             (state = run.loaded /\ ~state_updated /\ run.daily_ok = 0))

\* C21 witness: the daily path has returned from a sheet it fetched whose latest dated
\* row is in progress beyond last_processed_row, with a new complete row below it
C21_Witness ==
    /\ pc = "monthly_gate"
    /\ ~run.daily_fetch_failed
    /\ InProgressAhead(sheet, run.loaded.last_processed_row)
    /\ get_latest_complete_row(sheet) > run.loaded.last_processed_row
    /\ get_latest_complete_row(sheet) < get_latest_row_with_date(sheet)

\* an invocation starts at most one daily and one monthly delivery and has at most one of
\* each answered, and the daily alert it sends is for the latest complete row of the
\* sheet it fetched
OneAlertForLatestRow ==
    /\ [](run.daily_ok <= 1 /\ run.monthly_ok <= 1)
    /\ [][(pc # "daily_send" /\ pc' = "daily_send")
             => (pc = "daily_fetch" /\ run.daily_ok = 0)]_vars
    /\ [][(pc # "monthly_send" /\ pc' = "monthly_send")
             => (pc = "monthly_fetch" /\ run.monthly_ok = 0)]_vars
    /\ [](pc = "daily_send" => LatestOf(sheet, latest_complete_index, is_row_complete))

\* C22 as stated: at most one daily and one monthly alert per invocation, the daily one
\* for the latest complete row; and a complete row that lay between last_processed_row
\* and the latest complete row when an alert was sent gets no alert, then or later.
C22_PassedOverNeverAlerted ==
    /\ OneAlertForLatestRow
    /\ [](pc = "daily_send" => latest_complete_index \notin passed_over.rows)

\* C22 amended: at most one daily and one monthly alert per invocation, the daily one for
\* the latest complete row; a delivered alert moves last_processed_row past the complete
\* rows between, and a row last_processed_row has moved past gets no alert, then or
\* later.
C22_PassedOverOnceDelivered ==
    /\ OneAlertForLatestRow
    /\ [][DailySendOk =>
             \A i \in PassedOver(sheet, latest_complete_index, state.last_processed_row) :
                 i < state'.last_processed_row]_vars
    /\ [](pc = "daily_send" =>
             latest_complete_index
                 \notin {i \in passed_over.rows : i < Persisted.last_processed_row})

\* C22 witness: a row was passed over by a delivered alert; in a later invocation it is
\* the latest complete row of the sheet, and the daily path has returned without an alert
C22_Witness ==
    /\ pc = "monthly_gate"
    /\ ~run.daily_fetch_failed
    /\ run.daily_ok = 0
    /\ get_latest_complete_row(sheet) \in passed_over.rows
    /\ get_latest_complete_row(sheet) < run.loaded.last_processed_row
    /\ ~InProgressAhead(sheet, run.loaded.last_processed_row)

\* the cells of the rows of the model that are numbers, and the numbers they are
Numbers == {"7", "16", "1,5"}

Worth(cell) == CASE cell = "7" -> 7 [] cell = "16" -> 16 [] cell = "1,5" -> 15 [] OTHER -> 0

\* the places of the price cells of row, among its first NumCols cells, that are numbers
Priced(row) == {k \in 2..NumCols : k <= Len(row) /\ row[k] \in Numbers}

RECURSIVE WorthUpTo(_, _)
WorthUpTo(row, k) ==
    IF k < 2 THEN 0
    ELSE WorthUpTo(row, k - 1) + (IF k \in Priced(row) THEN Worth(row[k]) ELSE 0)

\* the mean of the prices of row that are numbers, as the pair (sum, n)
MeanOf(row) == [sum |-> WorthUpTo(row, NumCols), n |-> Cardinality(Priced(row))]

\* the latest complete row of data is new or corrected with respect to st, and none of
\* its price cells is a number
Unpriced(data, st) ==
    \E index \in {get_latest_complete_row(data)} :
        /\ index # NoIndex
        /\ \/ index > st.last_processed_row
           \/ /\ index = st.last_processed_row
              /\ compute_row_hash(data[index + 1]) # st.last_row_hash
        /\ Priced(data[index + 1]) = {}

\* C23: a pass of the daily path over a sheet whose latest complete row is new or
\* corrected and has no price that parses starts no delivery and leaves the state as it
\* is; while the sheet stays as it is, no invocation sends a daily alert or changes
\* last_processed_row or last_row_hash; and the average of a card that is sent is the sum
\* of the prices that parse over their number, a cell that does not parse counting for
\* nothing.
C23_NoAverageNoAlert ==
    /\ [][(DailyEvaluated /\ Unpriced(sheet, state)) =>
             /\ pc' # "daily_send"
             /\ card' = NoCard
             /\ state' = state
             /\ state_updated' = state_updated
             /\ run' = run]_vars
    /\ []((pc # "idle" /\ Unpriced(sheet, Persisted)) =>
             /\ pc # "daily_send"
             /\ run.daily_ok = 0
             /\ Pair(state) = Pair(Persisted))
    /\ [](pc = "daily_send" =>
             /\ card.daily_average = MeanOf(sheet[latest_complete_index + 1])
             /\ card.daily_average.n > 0)

\* C23 witness: an earlier invocation delivered the monthly alert and saved; the daily
\* path of this one has fetched the same sheet, whose latest complete row is new and
\* has no price that parses, and has returned without an alert
C23_Witness ==
    /\ pc = "monthly_gate"
    /\ ~run.daily_fetch_failed
    /\ run.loaded.last_monthly_alert # None
    /\ Unpriced(sheet, run.loaded)
    /\ ~InProgressAhead(sheet, run.loaded.last_processed_row)
    /\ run.daily_ok = 0
    /\ state = run.loaded

=============================================================================
